---- MODULE Spec2Model ----
(***************************************************************************)
(* Model of the probe-rs debugger extension (src/src/lib.rs): the Adapter  *)
(* Name Guard, the Endpoint Parser, the Request-Kind Resolver, the         *)
(* Scenario Synthesizer and the Connection Resolver / Binary Assembler.    *)
(*                                                                         *)
(* Text the code inspects character by character (server strings) is a     *)
(* sequence of one-character strings; text the code only compares or       *)
(* copies (adapter names, paths, labels) is a TLA+ string.                 *)
(***************************************************************************)
EXTENDS Integers, Sequences, FiniteSets, TLC

VARIABLES
    op,      \* the entry point called, "idle" between calls
    args,    \* the arguments of the call
    result,  \* what the call returned
    parses   \* the strings handed to parse_server_string during the call

vars == <<op, args, result, parses>>

(***************************************************************************)
(* Bounds of the enumerated inputs.                                        *)
(***************************************************************************)
\* the longest host, in dot-separated segments, drawn from OctetToks
MaxOctets == 5
\* the most colon-separated parts of an enumerated server string
MaxParts == 3

(***************************************************************************)
(* Option and Result values.                                               *)
(***************************************************************************)
None == [some |-> FALSE]
Some(x) == [some |-> TRUE, v |-> x]

Ok(x) == [ok |-> TRUE, val |-> x, msg |-> "", arg |-> <<>>]
Err(m, a) == [ok |-> FALSE, val |-> None, msg |-> m, arg |-> a]

(***************************************************************************)
(* Character helpers.                                                      *)
(***************************************************************************)
DigitChars == <<"0", "1", "2", "3", "4", "5", "6", "7", "8", "9">>

IsDigit(c) == \E i \in 1..10 : DigitChars[i] = c

DigitVal(c) == (CHOOSE i \in 1..10 : DigitChars[i] = c) - 1

\* u16::to_string / integer Display: the decimal numeral of n, no sign, no padding
RECURSIVE ToDecimal(_)
ToDecimal(n) ==
    IF n < 10 THEN <<DigitChars[n + 1]>>
    ELSE ToDecimal(n \div 10) \o <<DigitChars[(n % 10) + 1]>>

\* mutant of Split: empty pieces are dropped, as split(c).filter(non-empty) would
RECURSIVE SplitNonEmptyFrom(_, _, _, _)
SplitNonEmptyFrom(s, c, i, cur) ==
    LET piece == IF cur = <<>> THEN <<>> ELSE <<cur>>
    IN IF i > Len(s) THEN piece
       ELSE IF s[i] = c THEN piece \o SplitNonEmptyFrom(s, c, i + 1, <<>>)
       ELSE SplitNonEmptyFrom(s, c, i + 1, Append(cur, s[i]))

SplitNonEmpty(s, c) == SplitNonEmptyFrom(s, c, 1, <<>>)

\* str::split(c).collect(): the pieces between the separators, empty pieces kept;
\* the empty string gives one empty piece
RECURSIVE SplitFrom(_, _, _, _)
SplitFrom(s, c, i, cur) ==
    IF i > Len(s) THEN <<cur>>
    ELSE IF s[i] = c THEN <<cur>> \o SplitFrom(s, c, i + 1, <<>>)
    ELSE SplitFrom(s, c, i + 1, Append(cur, s[i]))

Split(s, c) == SplitFrom(s, c, 1, <<>>)

RECURSIVE Join(_, _)
Join(parts, c) ==
    IF Len(parts) = 0 THEN <<>>
    ELSE IF Len(parts) = 1 THEN parts[1]
    ELSE parts[1] \o <<c>> \o Join(Tail(parts), c)

(***************************************************************************)
(* Ipv4Addr::from_str as the code uses it: four dot-separated groups, each *)
(* of one to three decimal digits, no leading zero on a group of more than *)
(* one digit, each value at most 255, nothing before, between or after.    *)
(***************************************************************************)
U8_MAX == (2 ^ 8) - 1
U16_MAX == (2 ^ 16) - 1

\* one group: Some(value) or None
RECURSIVE ReadOctetFrom(_, _, _)
ReadOctetFrom(tok, i, acc) ==
    IF i > Len(tok) THEN Some(acc)
    ELSE IF ~IsDigit(tok[i]) THEN None
    ELSE LET next == acc * 10 + DigitVal(tok[i])
         IN IF next > U8_MAX THEN None ELSE ReadOctetFrom(tok, i + 1, next)

ReadOctet(tok) ==
    IF Len(tok) = 0 \/ Len(tok) > 3 THEN None
    ELSE IF Len(tok) > 1 /\ tok[1] = "0" THEN None
    ELSE ReadOctetFrom(tok, 1, 0)

\* mutant of to_bits: the octets in little-endian order
to_bits_le(o) == [hi |-> o[4] * (2 ^ 8) + o[3], lo |-> o[2] * (2 ^ 8) + o[1]]

\* Ipv4Addr::to_bits of the octets a.b.c.d: the u32 a*2^24 + b*2^16 + c*2^8 + d.
\* TLC's integers are 32-bit signed, so the u32 is kept as its two 16-bit
\* halves: the value is hi * 2^16 + lo.
to_bits(o) == [hi |-> o[1] * (2 ^ 8) + o[2], lo |-> o[3] * (2 ^ 8) + o[4]]

\* host_str.parse::<Ipv4Addr>() followed by to_bits: Some(bits) or None
ParseIpv4(host_str) ==
    LET groups == Split(host_str, ".")
    IN IF Len(groups) # 4 THEN None
       ELSE IF \E i \in 1..4 : ~ReadOctet(groups[i]).some THEN None
       ELSE Some(to_bits([i \in 1..4 |-> ReadOctet(groups[i]).v]))

(***************************************************************************)
(* u16::from_str: an optional leading "+", then one or more decimal        *)
(* digits whose value, accumulated with overflow checks, fits 16 bits.     *)
(* A leading "-" is an invalid digit for an unsigned type.                 *)
(***************************************************************************)
RECURSIVE ReadU16From(_, _, _)
ReadU16From(digits, i, acc) ==
    IF i > Len(digits) THEN Some(acc)
    ELSE IF ~IsDigit(digits[i]) THEN None
    ELSE LET next == acc * 10 + DigitVal(digits[i])
         IN IF next > U16_MAX THEN None ELSE ReadU16From(digits, i + 1, next)

ParseU16(port_str) ==
    IF Len(port_str) = 0 THEN None
    ELSE LET digits == IF port_str[1] = "+" THEN Tail(port_str) ELSE port_str
         IN IF Len(digits) = 0 THEN None ELSE ReadU16From(digits, 1, 0)

(***************************************************************************)
(* TcpArguments and parse_server_string.                                   *)
(***************************************************************************)
TcpArguments(port, host, timeout) == [port |-> port, host |-> host, timeout |-> timeout]

\* mutant of parse_server_string: the port is checked before the host
parse_server_string_port_first(server_string) ==
    LET parts == Split(server_string, ":")
    IN IF Len(parts) # 2
       THEN Err("Invalid server string format", server_string)
       ELSE LET host_str == parts[1]
                port_str == parts[2]
                host_ip == ParseIpv4(host_str)
                port == ParseU16(port_str)
            IN IF ~port.some THEN Err("Invalid port number", port_str)
               ELSE IF ~host_ip.some THEN Err("Invalid IP address", host_str)
               ELSE Ok(TcpArguments(port.v, host_ip.v, None))

parse_server_string(server_string) ==
    LET parts == Split(server_string, ":")
    IN IF Len(parts) # 2
       THEN Err("Invalid server string format", server_string)
       ELSE LET host_str == parts[1]
                port_str == parts[2]
                host_ip == ParseIpv4(host_str)
                port == ParseU16(port_str)
            IN IF ~host_ip.some THEN Err("Invalid IP address", host_str)
               ELSE IF ~port.some THEN Err("Invalid port number", port_str)
               ELSE Ok(TcpArguments(port.v, host_ip.v, None))

(***************************************************************************)
(* Enumerated server strings.                                              *)
(***************************************************************************)
OctetToks ==
    { <<>>, <<"0">>, <<"1", "0">>, <<"2", "5", "5">>, <<"2", "5", "6">> }

\* every host of 1..MaxOctets segments over OctetToks
HostsOver ==
    UNION { { Join(f, ".") : f \in [1..n -> OctetToks] } : n \in 1..MaxOctets }

\* hosts of the unit tests and other shapes the segment enumeration misses
HostsExtra ==
    { <<"1", "2", "7", ".", "0", ".", "0", ".", "1">>,
      <<"1", "9", "2", ".", "1", "6", "8", ".", "1", ".", "1">>,
      <<"1", "0", ".", "0", ".", "0", ".", "1">>,
      <<"9", "9", "9", ".", "9", "9", "9", ".", "9", "9", "9", ".", "9", "9", "9">>,
      <<"l", "o", "c", "a", "l", "h", "o", "s", "t">>,
      <<"0", "1", ".", "0", ".", "0", ".", "0">>,
      <<"1", "0", "0", "0", ".", "0", ".", "0", ".", "0">>,
      <<"1", "a", ".", "0", ".", "0", ".", "0">>,
      <<"+", "1", ".", "0", ".", "0", ".", "0">>,
      <<" ", "1", ".", "0", ".", "0", ".", "0">>,
      <<>> }

Hosts == HostsOver \cup HostsExtra

Ports ==
    { <<>>, <<"0">>, <<"1">>, <<"8", "0">>, <<"0", "0", "8", "0">>,
      <<"+", "8", "0">>, <<"+">>, <<"1", "2", "3", "4">>, <<"3", "0", "0", "0">>,
      <<"8", "0", "8", "0">>, <<"5", "0", "0", "0", "0">>,
      <<"6", "5", "5", "3", "5">>, <<"6", "5", "5", "3", "6">>,
      <<"7", "0", "0", "0", "0">>, <<"-", "1">>, <<"a", "b", "c">>,
      <<"8", "0", "a">> }

Extras == { <<>>, <<"e", "x", "t", "r", "a">> }

\* no colon; one colon; two or more colons (up to MaxParts parts)
OnePart == Hosts
TwoParts == { Join(<<h, p>>, ":") : h \in Hosts, p \in Ports }
ManyParts ==
    UNION { { Join(<<h, p>> \o f, ":") : h \in HostsExtra, p \in Ports,
                                         f \in [1..(n - 2) -> Extras] }
            : n \in 3..MaxParts }

ServerStrings == OnePart \cup TwoParts \cup ManyParts

(***************************************************************************)
(* Adapter Name Guard.                                                     *)
(***************************************************************************)
ADAPTER_NAME == "probe-rs"

\* mutant of verify_adapter_name: the comparison ignores ASCII case
verify_adapter_name_ignore_case(adapter_name) ==
    IF adapter_name \notin {"probe-rs", "Probe-rs", "PROBE-RS"}
    THEN Err("Unsupported debug adapter name", adapter_name)
    ELSE Ok(<<>>)

verify_adapter_name(adapter_name) ==
    IF adapter_name # ADAPTER_NAME
    THEN Err("Unsupported debug adapter name", adapter_name)
    ELSE Ok(<<>>)

\* Duration::from_secs(5)
DEFAULT_TIMEOUT == 5

\* mutant of as_millis: the timeout is left in seconds
as_secs(secs) == secs

\* Duration::as_millis() as u64
as_millis(secs) == secs * 1000

(***************************************************************************)
(* The JSON configuration.  A configuration string is abstracted to        *)
(* whether serde_json accepts it and, when it does, the document it        *)
(* denotes; a document is an object with the keys the extension's users    *)
(* write (each absent or holding a JSON value), or a non-object value.     *)
(* A JSON value is its type tag t and, for a string, its text s.           *)
(***************************************************************************)
Keys == {"server", "request", "cwd", "envs"}

\* serde_json::from_str
from_str(text) ==
    IF text.wellformed THEN Ok(text.doc)
    ELSE Err("Failed to parse JSON config", <<>>)

\* Value::get(key): None for a non-object value and for a missing key
get(value, key) ==
    IF value.object /\ value.fields[key].t # "absent"
    THEN Some(value.fields[key])
    ELSE None

\* Value::as_str: the text of a JSON string, None for every other JSON type
as_str(jval) == IF jval.t = "string" THEN Some(jval.s) ELSE None

\* Option::and_then with Value::as_str
and_then_as_str(opt) == IF opt.some THEN as_str(opt.v) ELSE None

\* Option::unwrap_or_else(|| default)
unwrap_or_else(opt, default) == IF opt.some THEN opt.v ELSE default

\* Value::to_string of a document built by json!
to_string(doc) == [wellformed |-> TRUE, doc |-> doc]

\* serde's encoding of an Option: null for None, the value for Some
JsonOfOption(opt) == IF opt.some THEN [t |-> "value", v |-> opt.v] ELSE [t |-> "null"]

(***************************************************************************)
(* get_dap_binary: the Connection Resolver and the Binary Assembler.       *)
(* The worktree argument is never read and is left out.                    *)
(***************************************************************************)
LOCALHOST == <<127, 0, 0, 1>>

SPAWN_PORT == 50000

\* mutant of server_string_of: any value of the key is taken for a server string
server_string_of_any(json_config) ==
    LET value == get(json_config, "server")
    IN IF value.some THEN Some(value.v.s) ELSE None

\* the `server` key, when it holds a string
server_string_of(json_config) == and_then_as_str(get(json_config, "server"))

\* the received connection: Ok(Some(endpoint)), Ok(None) without a server string, or the
\* Endpoint Parser's error
received_connection_of(json_config) ==
    LET server_string == server_string_of(json_config)
        parsed == parse_server_string(server_string.v)
    IN IF ~server_string.some THEN Ok(None)
       ELSE IF ~parsed.ok THEN parsed
       ELSE Ok(Some([parsed.val EXCEPT
                        !.timeout = Some(as_millis(DEFAULT_TIMEOUT))]))

\* mutant of command_of: the command is set whatever the connection is
command_always(received_connection, user_provided_debug_adapter_path) ==
    Some(unwrap_or_else(user_provided_debug_adapter_path, "probe-rs"))

\* the command: set only when no connection was received
command_of(received_connection, user_provided_debug_adapter_path) ==
    IF ~received_connection.some
    THEN Some(unwrap_or_else(user_provided_debug_adapter_path, "probe-rs"))
    ELSE None

\* the arguments: those of a spawned dap-server, or none
arguments_of(received_connection) ==
    IF ~received_connection.some
    THEN <<"dap-server", "--port", ToDecimal(SPAWN_PORT)>>
    ELSE <<>>

\* the connection: the spawned server on the loopback address, or the received one
connection_of(received_connection) ==
    IF ~received_connection.some
    THEN Some(TcpArguments(SPAWN_PORT, to_bits(LOCALHOST),
                           Some(as_millis(DEFAULT_TIMEOUT))))
    ELSE received_connection

\* mutant of StartDebuggingRequestArguments: the request follows the
\* configuration's own `request` key
StartDebuggingRequestArguments_from_config(config) ==
    [configuration |-> config.config,
     request |->
        IF and_then_as_str(get(config.config.doc, "request")) = Some("attach")
        THEN "Attach"
        ELSE "Launch"]

\* request_args: the configuration is passed along, the request is Launch
StartDebuggingRequestArguments(config) ==
    [configuration |-> config.config, request |-> "Launch"]

get_dap_binary(adapter_name, config, user_provided_debug_adapter_path) ==
    LET verified == verify_adapter_name(adapter_name)
        json_config == from_str(config.config)
        received_connection == received_connection_of(json_config.val)
    IN IF ~verified.ok THEN verified
       ELSE IF ~json_config.ok THEN json_config
       ELSE IF ~received_connection.ok THEN received_connection
       ELSE Ok([command |-> command_of(received_connection.val,
                                       user_provided_debug_adapter_path),
                arguments |-> arguments_of(received_connection.val),
                envs |-> <<>>,
                cwd |-> None,
                connection |-> connection_of(received_connection.val),
                request_args |-> StartDebuggingRequestArguments(config)])

\* the strings get_dap_binary hands to parse_server_string, in order
get_dap_binary_parses(adapter_name, config) ==
    LET json_config == from_str(config.config)
    IN IF ~verify_adapter_name(adapter_name).ok \/ ~json_config.ok THEN <<>>
       ELSE IF server_string_of(json_config.val).some
       THEN <<server_string_of(json_config.val).v>>
       ELSE <<>>

(***************************************************************************)
(* dap_request_kind: the Request-Kind Resolver.                            *)
(***************************************************************************)
\* mutant of dap_request_kind: a configuration without a request string is
\* taken for a launch
dap_request_kind_default_launch(adapter_name, config) ==
    LET verified == verify_adapter_name(adapter_name)
        request_value == and_then_as_str(get(config, "request"))
    IN IF ~verified.ok THEN verified
       ELSE IF ~request_value.some THEN Ok("Launch")
       ELSE IF request_value.v = "launch" THEN Ok("Launch")
       ELSE IF request_value.v = "attach" THEN Ok("Attach")
       ELSE Err("Invalid value for the 'request' field in configuration",
                request_value.v)

dap_request_kind(adapter_name, config) ==
    LET verified == verify_adapter_name(adapter_name)
        request_value == and_then_as_str(get(config, "request"))
    IN IF ~verified.ok THEN verified
       ELSE IF ~request_value.some
       THEN Err("Missing 'request' field in configuration", <<>>)
       ELSE IF request_value.v = "launch" THEN Ok("Launch")
       ELSE IF request_value.v = "attach" THEN Ok("Attach")
       ELSE Err("Invalid value for the 'request' field in configuration",
                request_value.v)

(***************************************************************************)
(* dap_config_to_scenario: the Scenario Synthesizer.                       *)
(***************************************************************************)
\* mutant of launch_config: haltAfterReset is always true
launch_config_always_halt(launch_request, stop_on_entry) ==
    [cwd |-> JsonOfOption(launch_request.cwd),
     coreConfigs |-> <<[programBinary |-> launch_request.program]>>,
     flashingConfig |-> [flashingEnabled |-> TRUE,
                         haltAfterReset |-> [t |-> "value", v |-> TRUE]],
     request |-> "launch"]

\* the json! document of a launch request
launch_config(launch_request, stop_on_entry) ==
    [cwd |-> JsonOfOption(launch_request.cwd),
     coreConfigs |-> <<[programBinary |-> launch_request.program]>>,
     flashingConfig |-> [flashingEnabled |-> TRUE,
                         haltAfterReset |-> JsonOfOption(stop_on_entry)],
     request |-> "launch"]

dap_config_to_scenario(debug_config) ==
    LET verified == verify_adapter_name(debug_config.adapter)
        launch_request == debug_config.request
    IN IF ~verified.ok THEN verified
       ELSE IF debug_config.request.kind = "Attach"
       THEN Err("Attaching to a process is not supported by this debug adapter", <<>>)
       ELSE IF launch_request.args # <<>>
       THEN Err("Passing arguments is not supported by this debug adapter", <<>>)
       ELSE IF launch_request.envs # <<>>
       THEN Err("Setting environment variables is not supported by this debug adapter",
                <<>>)
       ELSE Ok([label |-> debug_config.label,
                adapter |-> debug_config.adapter,
                build |-> None,
                config |-> to_string(launch_config(launch_request,
                                                   debug_config.stop_on_entry)),
                tcp_connection |-> None])

(***************************************************************************)
(* Enumerated inputs of the three entry points.                            *)
(***************************************************************************)
AdapterNames == {"probe-rs", "Probe-rs", "gdb"}

AdapterPaths == {None, Some("/opt/probe-rs"), Some("")}

Absent(empty) == [t |-> "absent", s |-> empty]

\* the JSON values that are not strings
NonStrings(empty) ==
    { [t |-> k, s |-> empty] : k \in {"null", "bool", "number", "array", "object"} }

\* server strings of the `server` key: the hosts of HostsExtra with every port,
\* and strings with no colon or with two
ConfigServers ==
    { Join(<<h, p>>, ":") : h \in HostsExtra, p \in Ports }
        \cup HostsExtra
        \cup { <<"1", "2", "7", ".", "0", ".", "0", ".", "1", ":",
                 "3", "0", "0", "0", ":", "e", "x", "t", "r", "a">> }

ServerValues ==
    {Absent(<<>>)} \cup NonStrings(<<>>)
        \cup { [t |-> "string", s |-> srv] : srv \in ConfigServers }

\* a few values of the `server` key, for the calls that never read it
ServerValuesFew ==
    { Absent(<<>>), [t |-> "number", s |-> <<>>],
      [t |-> "string", s |-> <<"1", "0", ".", "0", ".", "0", ".", "1", ":", "1">>],
      [t |-> "string", s |-> <<"l", "o", "c", "a", "l", "h", "o", "s", "t">>] }

RequestValues ==
    {Absent("")} \cup NonStrings("")
        \cup { [t |-> "string", s |-> r] : r \in {"launch", "attach", "foo", "Launch", ""} }

RequestValuesFew ==
    { Absent(""), [t |-> "number", s |-> ""], [t |-> "string", s |-> "launch"],
      [t |-> "string", s |-> "attach"], [t |-> "string", s |-> "foo"] }

CwdValues == { Absent(""), [t |-> "string", s |-> "/work"] }

EnvsValues == { Absent(""), [t |-> "object", s |-> ""] }

Objects(servers, requests) ==
    { [object |-> TRUE,
       fields |-> [k \in Keys |-> CASE k = "server" -> srv
                                    [] k = "request" -> req
                                    [] k = "cwd" -> cwd
                                    [] OTHER -> envs]] :
        srv \in servers, req \in requests, cwd \in CwdValues, envs \in EnvsValues }

\* a JSON document that is no object (a number, an array, ...): it has no keys
NonObject ==
    [object |-> FALSE,
     fields |-> [k \in Keys |-> IF k = "server" THEN Absent(<<>>) ELSE Absent("")]]

\* configuration strings: the well-formed ones and one serde_json rejects
ConfigStrings ==
    { [wellformed |-> TRUE, doc |-> d] :
        d \in Objects(ServerValues, RequestValuesFew) \cup {NonObject} }
        \cup { [wellformed |-> FALSE, doc |-> NonObject] }

TcpTemplates == { None, Some([port |-> Some(4000), host |-> None, timeout |-> None]) }

DebugTaskDefinitions ==
    { [label |-> "task", adapter |-> "probe-rs", config |-> c, tcp_connection |-> t] :
        c \in ConfigStrings, t \in TcpTemplates }

LaunchRequests ==
    { [kind |-> "Launch", program |-> p, cwd |-> c, args |-> a, envs |-> e] :
        p \in {"app.elf", ""}, c \in {None, Some("/work")},
        a \in {<<>>, <<"-v">>, <<"-v", "-x">>},
        e \in {<<>>, << <<"K", "V">> >>} }

AttachRequests ==
    { [kind |-> "Attach", process_id |-> pid] : pid \in {None, Some(42)} }

DebugConfigs ==
    { [label |-> l, adapter |-> a, request |-> r, stop_on_entry |-> s] :
        l \in {"run", ""}, a \in AdapterNames,
        r \in LaunchRequests \cup AttachRequests,
        s \in {None, Some(TRUE), Some(FALSE)} }

(***************************************************************************)
(* The host's calls.  Each call is one whole handler; Return hands the     *)
(* result back, after which nothing of the call is kept.                   *)
(***************************************************************************)
Init ==
    /\ op = "idle"
    /\ args = <<>>
    /\ result = None
    /\ parses = <<>>

\* a direct call of the Endpoint Parser, as the unit tests make it
ParseServerString ==
    /\ op = "idle"
    /\ \E s \in ServerStrings :
          /\ op' = "parse_server_string"
          /\ args' = [server_string |-> s]
          /\ result' = parse_server_string(s)
          /\ parses' = <<s>>

GetDapBinary ==
    /\ op = "idle"
    /\ \E n \in AdapterNames, c \in DebugTaskDefinitions, u \in AdapterPaths :
          /\ op' = "get_dap_binary"
          /\ args' = [adapter_name |-> n, config |-> c,
                      user_provided_debug_adapter_path |-> u]
          /\ result' = get_dap_binary(n, c, u)
          /\ parses' = get_dap_binary_parses(n, c)

DapRequestKind ==
    /\ op = "idle"
    /\ \E n \in AdapterNames,
          c \in Objects(ServerValuesFew, RequestValues) \cup {NonObject} :
          /\ op' = "dap_request_kind"
          /\ args' = [adapter_name |-> n, config |-> c]
          /\ result' = dap_request_kind(n, c)
          /\ parses' = <<>>

DapConfigToScenario ==
    /\ op = "idle"
    /\ \E d \in DebugConfigs :
          /\ op' = "dap_config_to_scenario"
          /\ args' = [debug_config |-> d]
          /\ result' = dap_config_to_scenario(d)
          /\ parses' = <<>>

Return ==
    /\ op # "idle"
    /\ op' = "idle"
    /\ args' = <<>>
    /\ result' = None
    /\ parses' = <<>>

Next ==
    \/ ParseServerString
    \/ GetDapBinary
    \/ DapRequestKind
    \/ DapConfigToScenario
    \/ Return

Spec == Init /\ [][Next]_vars

(***************************************************************************)
(* Vocabulary of the properties: the error classes of the specification,   *)
(* told apart by the fixed text of the message, and a reading of server    *)
(* strings by the positions of their separators.                           *)
(***************************************************************************)
UnsupportedAdapter == "Unsupported debug adapter name"
MalformedEndpoint == "Invalid server string format"
InvalidAddress == "Invalid IP address"
InvalidPort == "Invalid port number"
MalformedConfig == "Failed to parse JSON config"
MissingField == "Missing 'request' field in configuration"
InvalidFieldValue == "Invalid value for the 'request' field in configuration"
UnsupportedArguments == "Passing arguments is not supported by this debug adapter"
UnsupportedEnvironment ==
    "Setting environment variables is not supported by this debug adapter"
UnsupportedRequestKind ==
    "Attaching to a process is not supported by this debug adapter"

Fails(class) == ~result.ok /\ result.msg = class

FailsWith(class, value) == Fails(class) /\ result.arg = value

\* where c occurs in s
Positions(s, c) == { i \in 1..Len(s) : s[i] = c }

\* the k-th piece of s between occurrences of c, k in 1..(occurrences + 1)
Piece(s, c, k) ==
    LET pos == Positions(s, c)
        nth(j) == IF j = 0 THEN 0
                  ELSE IF j > Cardinality(pos) THEN Len(s) + 1
                  ELSE CHOOSE i \in pos : Cardinality({ x \in pos : x < i }) = j - 1
    IN SubSeq(s, nth(k - 1) + 1, nth(k) - 1)

Colons(s) == Cardinality(Positions(s, ":"))

HostOf(s) == Piece(s, ":", 1)

PortOf(s) == Piece(s, ":", 2)

AllDigits(tok) == Len(tok) > 0 /\ \A i \in 1..Len(tok) : IsDigit(tok[i])

\* the number a string of digits denotes
RECURSIVE DecValue(_)
DecValue(tok) ==
    IF Len(tok) = 0 THEN 0
    ELSE DecValue(SubSeq(tok, 1, Len(tok) - 1)) * 10 + DigitVal(tok[Len(tok)])

\* the decimal numerals of the octets 0..255
OctetLiterals == { ToDecimal(n) : n \in 0..255 }

\* a dotted quad: exactly four octet numerals separated by three dots
IsDottedQuad(h) ==
    /\ Cardinality(Positions(h, ".")) = 3
    /\ \A k \in 1..4 : Piece(h, ".", k) \in OctetLiterals

OctetOf(h, k) == DecValue(Piece(h, ".", k))

\* a decimal integer in 0..65535
IsPortNumeral(p) == AllDigits(p) /\ Len(p) <= 9 /\ DecValue(p) <= 65535

\* an optional sign and one or more digits
Numeric(p) ==
    /\ Len(p) > 0
    /\ AllDigits(IF p[1] \in {"+", "-"} THEN Tail(p) ELSE p)

Unsigned(p) == IF p[1] = "+" THEN Tail(p) ELSE p

\* non-numeric, negative, empty or greater than 65535
IsBadPort(p) ==
    \/ Len(p) = 0
    \/ ~Numeric(p)
    \/ p[1] = "-"
    \/ Len(Unsigned(p)) <= 9 /\ DecValue(Unsigned(p)) > 65535

Parsing == op = "parse_server_string"

Resolving == op = "get_dap_binary"

Classifying == op = "dap_request_kind"

Synthesizing == op = "dap_config_to_scenario"

\* the adapter name a call was given
NameGiven ==
    IF Synthesizing THEN args.debug_config.adapter ELSE args.adapter_name

\* get_dap_binary got the right name and a configuration that is JSON
ResolvingJson ==
    /\ Resolving
    /\ args.adapter_name = "probe-rs"
    /\ args.config.config.wellformed

\* the `server` key of the configuration given to get_dap_binary
ServerKey ==
    IF args.config.config.doc.object
    THEN args.config.config.doc.fields["server"]
    ELSE Absent(<<>>)

\* the `request` key of a JSON document
RequestKey(doc) == IF doc.object THEN doc.fields["request"] ELSE Absent("")

Loopback == [hi |-> 127 * 256 + 0, lo |-> 0 * 256 + 1]

SpawnArguments == <<"dap-server", "--port", <<"5", "0", "0", "0", "0">>>>

\* the spawn-mode result for the adapter path given
IsSpawnResult ==
    /\ result.ok
    /\ result.val.command =
          Some(IF args.user_provided_debug_adapter_path.some
               THEN args.user_provided_debug_adapter_path.v
               ELSE "probe-rs")
    /\ result.val.arguments = SpawnArguments
    /\ result.val.connection.some
    /\ result.val.connection.v.host = Loopback
    /\ result.val.connection.v.port = 50000
    /\ result.val.connection.v.timeout = Some(5000)

(***************************************************************************)
(* C1.                                                                     *)
(***************************************************************************)
\* C1 as stated: every successful resolve populates exactly one of
\* command/arguments (spawn mode, connection absent) and connection (reach
\* mode, command absent, no arguments); never both, never neither.
C1_ExactlyOnePopulated ==
    (Resolving /\ result.ok) =>
        \/ /\ result.val.command.some
           /\ ~result.val.connection.some
        \/ /\ ~result.val.command.some
           /\ result.val.arguments = <<>>
           /\ result.val.connection.some

\* C1 amended: every successful resolve is in exactly one mode, spawn mode
\* (command set, three arguments) or reach mode (command absent, no
\* arguments); the connection endpoint is set in both modes, so a result with
\* neither command nor connection is never returned, and command and
\* connection are both set exactly in spawn mode.
C1_OneModeConnectionAlways ==
    (Resolving /\ result.ok) =>
        /\ result.val.connection.some
        /\ \/ /\ result.val.command.some
              /\ Len(result.val.arguments) = 3
              /\ ServerKey.t # "string"
           \/ /\ ~result.val.command.some
              /\ result.val.arguments = <<>>
              /\ ServerKey.t = "string"

C1_Witness ==
    /\ Resolving
    /\ result.ok
    /\ result.val.command.some
    /\ result.val.connection.some
    /\ ServerKey.t = "absent"

(***************************************************************************)
(* C2.                                                                     *)
(***************************************************************************)
\* C2: each of the three entry points fails with UnsupportedAdapter, naming
\* the adapter, whenever the name is not exactly "probe-rs", whatever the
\* other inputs are, and consults no parser; with the name "probe-rs" it never
\* fails with UnsupportedAdapter.
C2_NameCheckedFirst ==
    (Resolving \/ Classifying \/ Synthesizing) =>
        /\ NameGiven # "probe-rs" =>
              FailsWith(UnsupportedAdapter, NameGiven) /\ parses = <<>>
        /\ NameGiven = "probe-rs" => ~Fails(UnsupportedAdapter)

\* a wrong name together with a configuration that is not JSON
C2_Witness ==
    /\ Resolving
    /\ args.adapter_name = "Probe-rs"
    /\ ~args.config.config.wellformed
    /\ Fails(UnsupportedAdapter)

(***************************************************************************)
(* C3.                                                                     *)
(***************************************************************************)
\* C3 as stated: the Endpoint Parser fails with MalformedEndpoint for every
\* input that does not split on ':' into exactly two non-empty parts.
C3_TwoNonEmptyParts ==
    (Parsing /\ ~(/\ Colons(args.server_string) = 1
                  /\ HostOf(args.server_string) # <<>>
                  /\ PortOf(args.server_string) # <<>>))
        => Fails(MalformedEndpoint)

\* C3 amended: the Endpoint Parser fails with MalformedEndpoint, naming the
\* whole input, exactly for the inputs that do not split on ':' into exactly
\* two parts (no colon, the empty string, two or more colons); with exactly one
\* colon an empty host segment gives InvalidAddress and a valid host with an
\* empty port segment gives InvalidPort.
C3_ExactlyTwoParts ==
    Parsing =>
        LET s == args.server_string
        IN /\ Colons(s) # 1 <=> Fails(MalformedEndpoint)
           /\ Colons(s) # 1 => result.arg = s
           /\ (Colons(s) = 1 /\ HostOf(s) = <<>>) => FailsWith(InvalidAddress, <<>>)
           /\ (Colons(s) = 1 /\ IsDottedQuad(HostOf(s)) /\ PortOf(s) = <<>>)
                 => FailsWith(InvalidPort, <<>>)

\* ":3000" is rejected for its address, not for its format
C3_Witness ==
    /\ Parsing
    /\ args.server_string = <<":", "3", "0", "0", "0">>
    /\ Fails(InvalidAddress)

(***************************************************************************)
(* C4.                                                                     *)
(***************************************************************************)
\* C4: the error class of parse_server_string is that of the first failing
\* check in the order part count, host, port: not exactly one colon gives
\* MalformedEndpoint; one colon and a host that is no dotted quad gives
\* InvalidAddress whatever the port is; a valid host with a port that is
\* empty, non-numeric, negative or above 65535 gives InvalidPort.
C4_FirstFailingCheck ==
    Parsing =>
        LET s == args.server_string
        IN /\ Colons(s) # 1 => FailsWith(MalformedEndpoint, s)
           /\ (Colons(s) = 1 /\ ~IsDottedQuad(HostOf(s)))
                 => FailsWith(InvalidAddress, HostOf(s))
           /\ (Colons(s) = 1 /\ IsDottedQuad(HostOf(s)) /\ IsBadPort(PortOf(s)))
                 => FailsWith(InvalidPort, PortOf(s))

\* a bad host together with a bad port
C4_Witness ==
    /\ Parsing
    /\ Colons(args.server_string) = 1
    /\ ~IsDottedQuad(HostOf(args.server_string))
    /\ HostOf(args.server_string) # <<>>
    /\ IsBadPort(PortOf(args.server_string))
    /\ Fails(InvalidAddress)

(***************************************************************************)
(* C5.                                                                     *)
(***************************************************************************)
\* C5: for "a.b.c.d:port" with octets in 0..255 and a port in 0..65535 the
\* parser succeeds with host a*2^24 + b*2^16 + c*2^8 + d (as its 16-bit halves
\* a*2^8 + b and c*2^8 + d), the port parsed and no timeout; no success carries
\* a timeout and no failure carries a value.
C5_ValidEndpoint ==
    Parsing =>
        LET s == args.server_string
            h == HostOf(s)
        IN /\ (Colons(s) = 1 /\ IsDottedQuad(h) /\ IsPortNumeral(PortOf(s))) =>
                 /\ result.ok
                 /\ result.val.host.hi = OctetOf(h, 1) * (2 ^ 8) + OctetOf(h, 2)
                 /\ result.val.host.lo = OctetOf(h, 3) * (2 ^ 8) + OctetOf(h, 4)
                 /\ result.val.port = DecValue(PortOf(s))
           /\ result.ok => result.val.timeout = None
           /\ ~result.ok => result.val = None

\* "192.168.1.1:8080"
C5_Witness ==
    /\ Parsing
    /\ args.server_string =
          <<"1", "9", "2", ".", "1", "6", "8", ".", "1", ".", "1", ":",
            "8", "0", "8", "0">>
    /\ result.ok
    /\ result.val.port = 8080
    /\ result.val.host = [hi |-> 192 * 256 + 168, lo |-> 1 * 256 + 1]

(***************************************************************************)
(* C6.                                                                     *)
(***************************************************************************)
\* C6: with a valid name and a JSON configuration, resolve picks its mode from
\* the `server` key alone: a server string the parser accepts gives no command,
\* no arguments and the parsed endpoint with timeout 5000 ms; one the parser
\* rejects gives the parser's error and no spawn; no server key gives the
\* user's adapter path or "probe-rs", the arguments dap-server --port 50000
\* and the connection 127.0.0.1:50000 with timeout 5000 ms.
C6_ModeFromServer ==
    ResolvingJson =>
        LET parsed == parse_server_string(ServerKey.s)
        IN /\ (ServerKey.t = "string" /\ parsed.ok) =>
                 /\ result.ok
                 /\ result.val.command = None
                 /\ result.val.arguments = <<>>
                 /\ result.val.connection =
                       Some([port |-> parsed.val.port, host |-> parsed.val.host,
                             timeout |-> Some(5000)])
           /\ (ServerKey.t = "string" /\ ~parsed.ok) => result = parsed
           /\ ServerKey.t = "absent" => IsSpawnResult

\* "10.0.0.1:1234" in the configuration
C6_Witness ==
    /\ ResolvingJson
    /\ ServerKey.t = "string"
    /\ ServerKey.s = <<"1", "0", ".", "0", ".", "0", ".", "1", ":", "1", "2", "3", "4">>
    /\ result.ok
    /\ result.val.command = None
    /\ result.val.connection.v.port = 1234

(***************************************************************************)
(* C7.                                                                     *)
(***************************************************************************)
\* C7: every successful resolve returns no environment, no working directory,
\* the configuration string it was given and the request marker Launch,
\* whatever the configuration's own request, cwd and envs keys hold.
C7_FixedFrame ==
    (Resolving /\ result.ok) =>
        /\ result.val.envs = <<>>
        /\ result.val.cwd = None
        /\ result.val.request_args.configuration = args.config.config
        /\ result.val.request_args.request = "Launch"

\* reach mode, with request "attach" and cwd and envs keys in the configuration
C7_Witness ==
    /\ Resolving
    /\ result.ok
    /\ ~result.val.command.some
    /\ RequestKey(args.config.config.doc) = [t |-> "string", s |-> "attach"]
    /\ args.config.config.doc.fields["cwd"].t = "string"
    /\ args.config.config.doc.fields["envs"].t = "object"

(***************************************************************************)
(* C8.                                                                     *)
(***************************************************************************)
\* C8: with a valid name the synthesizer succeeds exactly for a Launch with no
\* args and no envs; Attach fails with UnsupportedRequestKind, args with
\* UnsupportedFeature(arguments) even when envs are given too, envs alone with
\* UnsupportedFeature(environment), and no failure carries a scenario; a
\* success keeps label and adapter, has no build and no TCP target, and its
\* JSON has flashingEnabled true, haltAfterReset the stop-on-entry flag, cwd
\* and programBinary of the request and request "launch".
C8_Scenario ==
    (Synthesizing /\ args.debug_config.adapter = "probe-rs") =>
        LET d == args.debug_config
            r == d.request
        IN /\ result.ok <=> (r.kind = "Launch" /\ r.args = <<>> /\ r.envs = <<>>)
           /\ r.kind = "Attach" => Fails(UnsupportedRequestKind)
           /\ (r.kind = "Launch" /\ r.args # <<>>) => Fails(UnsupportedArguments)
           /\ (r.kind = "Launch" /\ r.args = <<>> /\ r.envs # <<>>)
                 => Fails(UnsupportedEnvironment)
           /\ ~result.ok => result.val = None
           /\ result.ok =>
                 LET json == result.val.config.doc
                 IN /\ result.val.label = d.label
                    /\ result.val.adapter = d.adapter
                    /\ result.val.build = None
                    /\ result.val.tcp_connection = None
                    /\ result.val.config.wellformed
                    /\ json.flashingConfig.flashingEnabled = TRUE
                    /\ IF d.stop_on_entry.some
                       THEN /\ json.flashingConfig.haltAfterReset.t = "value"
                            /\ json.flashingConfig.haltAfterReset.v = d.stop_on_entry.v
                       ELSE json.flashingConfig.haltAfterReset.t = "null"
                    /\ IF r.cwd.some
                       THEN json.cwd.t = "value" /\ json.cwd.v = r.cwd.v
                       ELSE json.cwd.t = "null"
                    /\ Len(json.coreConfigs) = 1
                    /\ json.coreConfigs[1].programBinary = r.program
                    /\ json.request = "launch"

\* a launch that stops on entry
C8_Witness ==
    /\ Synthesizing
    /\ result.ok
    /\ args.debug_config.stop_on_entry = Some(TRUE)
    /\ result.val.config.doc.flashingConfig.haltAfterReset.v = TRUE
    /\ result.val.config.doc.flashingConfig.flashingEnabled = TRUE

(***************************************************************************)
(* C9.                                                                     *)
(***************************************************************************)
\* C9: with a valid name the Request-Kind Resolver returns Launch exactly for
\* the request string "launch", Attach exactly for "attach", fails with
\* MissingField when the key is absent or no string, and with InvalidFieldValue
\* naming the value for every other string; no other key matters.
C9_RequestKind ==
    (Classifying /\ args.adapter_name = "probe-rs") =>
        LET req == RequestKey(args.config)
        IN /\ (result.ok /\ result.val = "Launch")
                 <=> (req.t = "string" /\ req.s = "launch")
           /\ (result.ok /\ result.val = "Attach")
                 <=> (req.t = "string" /\ req.s = "attach")
           /\ req.t # "string" <=> Fails(MissingField)
           /\ (req.t = "string" /\ req.s \notin {"launch", "attach"})
                 => FailsWith(InvalidFieldValue, req.s)

\* "attach", next to a server key
C9_Witness ==
    /\ Classifying
    /\ result.ok
    /\ result.val = "Attach"
    /\ args.config.fields["server"].t = "string"

(***************************************************************************)
(* C10.                                                                    *)
(***************************************************************************)
\* C10: a `server` key that holds no JSON string is no error: resolve selects
\* spawn mode as if the key were absent and never calls the Endpoint Parser.
C10_NonStringServer ==
    (ResolvingJson /\ ServerKey.t \notin {"absent", "string"}) =>
        /\ IsSpawnResult
        /\ parses = <<>>
        /\ LET without == [args.config EXCEPT
                              !.config.doc.fields["server"] = Absent(<<>>)]
               other == get_dap_binary(args.adapter_name, without,
                                       args.user_provided_debug_adapter_path)
           IN /\ other.ok
              /\ result.val.command = other.val.command
              /\ result.val.arguments = other.val.arguments
              /\ result.val.connection = other.val.connection
              /\ result.val.envs = other.val.envs
              /\ result.val.cwd = other.val.cwd
              /\ result.val.request_args.request = other.val.request_args.request

\* `"server": 5` with no adapter path given
C10_Witness ==
    /\ ResolvingJson
    /\ ServerKey.t = "number"
    /\ ~args.user_provided_debug_adapter_path.some
    /\ result.ok
    /\ result.val.command = Some("probe-rs")

====
